---- MODULE Spec2Model ----
(***************************************************************************)
(* A model of the pointer trie of phiryll/btrie (src/fuzz_test.go, lines   *)
(* 182-421: node, Put, Get, Delete, Range, forwardChildAdj,                *)
(* reverseChildAdj, search) and of the pre-order traverser                 *)
(* (src/traversers.go, lines 1-26).                                        *)
(*                                                                         *)
(* A *node[V] is an address of the heap; the heap maps every live address  *)
(* to the node struct stored there.  A trie instance is the address of its *)
(* root node.                                                              *)
(***************************************************************************)
EXTENDS Integers, Sequences, FiniteSets, TLC

\* Bounds of the model.
MaxByte == 1    \* key bytes are 0..MaxByte (a byte of the code is 0..255)
MaxLen == 2     \* keys have at most MaxLen bytes
MaxVal == 1     \* values are 0..MaxVal; 0 is the zero value of V
MaxKeys == 3    \* the tries together hold at most MaxKeys keys
MaxVertex == 3  \* the graphs the traverser is tried on have the vertices 0..MaxVertex

VARIABLES
    heap,       \* address -> node struct
    roots,      \* instance name -> address of its root node
    ref,        \* instance name -> the reference sorted map (stored key -> value)
    refPrev,    \* ref as it was before the last operation
    ret,        \* the last operation: its arguments and what it returned
    it          \* the Range sequence a consumer holds, and how far it has got

vars == <<heap, roots, ref, refPrev, ret, it>>

Byte == 0..MaxByte
Value == 0..MaxVal
Zero == 0

\* Every byte sequence of at most MaxLen bytes.
Keys == UNION {[1..n -> Byte] : n \in 0..MaxLen}

\* A Go []byte argument: nil, or a (possibly empty) byte sequence.
NilKey == [isNil |-> TRUE, b |-> <<>>]
KeyOf(b) == [isNil |-> FALSE, b |-> b]

Insts == {"t", "c"}

\* The address a new node gets: allocation returns an address no live node
\* has.  Within one instance a node is created only at a byte path that holds
\* no node, so the pair (instance, path) names a fresh address.
NewAddr(inst, path) == <<inst, path>>

\* node[V]{value, children, keyByte, isTerminal}
Node(value, children, keyByte, isTerminal) ==
    [value |-> value, children |-> children, keyByte |-> keyByte,
     isTerminal |-> isTerminal]

InsertAt(s, i, x) == SubSeq(s, 1, i - 1) \o <<x>> \o SubSeq(s, i, Len(s))

RemoveAt(s, i) == SubSeq(s, 1, i - 1) \o SubSeq(s, i + 1, Len(s))

Min(S) == CHOOSE x \in S : \A y \in S : x <= y

\* node.search: the first index whose key byte is >= byt, and whether it is
\* byt; len(children) if there is none.  Indexes are 1-based here.
search(h, n, byt) ==
    LET ch == h[n].children
        I == {i \in 1..Len(ch) : byt <= h[ch[i]].keyByte}
    IN  IF I = {} THEN [index |-> Len(ch) + 1, found |-> FALSE]
        ELSE [index |-> Min(I), found |-> h[ch[Min(I)]].keyByte = byt]

\* The chain of new nodes Put builds for key[i..], bottom up: a terminal node
\* for the last byte, and above it one single-child non-terminal node per
\* byte down to position i.
NewChain(inst, key, i, value) ==
    [a \in {NewAddr(inst, SubSeq(key, 1, k)) : k \in i..Len(key)} |->
        LET k == Len(a[2])
        IN  IF k = Len(key) THEN Node(value, <<>>, key[k], TRUE)
            ELSE Node(Zero, <<NewAddr(inst, SubSeq(key, 1, k + 1))>>, key[k], FALSE)]

\* Mutant of Splice: the new child is appended and never moved to its index.
SpliceAppendOnly(children, index, child) == Append(children, child)

\* The splice of Put: append, shift the tail right by one, store at index.
Splice(children, index, child) == InsertAt(children, index, child)

\* Mutant of PutFound: a non-terminal node gets the value but is not marked
\* terminal.
PutFoundNotMarked(h, n, value) ==
    IF h[n].isTerminal
    THEN [h |-> [h EXCEPT ![n].value = value],
          value |-> h[n].value, ok |-> TRUE, panic |-> FALSE]
    ELSE [h |-> [h EXCEPT ![n].value = value],
          value |-> Zero, ok |-> FALSE, panic |-> FALSE]

\* The end of Put: n = found key, replace value.
PutFound(h, n, value) ==
    IF h[n].isTerminal
    THEN [h |-> [h EXCEPT ![n].value = value],
          value |-> h[n].value, ok |-> TRUE, panic |-> FALSE]
    ELSE [h |-> [h EXCEPT ![n].value = value, ![n].isTerminal = TRUE],
          value |-> Zero, ok |-> FALSE, panic |-> FALSE]

RECURSIVE PutLoop(_, _, _, _, _, _)
PutLoop(h, n, inst, key, i, value) ==
    IF i > Len(key)
    THEN PutFound(h, n, value)
    ELSE LET s == search(h, n, key[i])
         IN  IF ~s.found
             THEN LET child == NewAddr(inst, SubSeq(key, 1, i))
                      h1 == NewChain(inst, key, i, value) @@ h
                  IN  [h |-> [h1 EXCEPT ![n].children = Splice(@, s.index, child)],
                       value |-> Zero, ok |-> FALSE, panic |-> FALSE]
             ELSE PutLoop(h, h[n].children[s.index], inst, key, i + 1, value)

\* Mutant of Put: no nil check, so a nil key is ranged over as an empty one.
PutNoNilCheck(h, n, inst, key, value) == PutLoop(h, n, inst, key.b, 1, value)

\* node.Put on the root n of instance inst.
Put(h, n, inst, key, value) ==
    IF key.isNil
    THEN [h |-> h, value |-> Zero, ok |-> FALSE, panic |-> TRUE]
    ELSE PutLoop(h, n, inst, key.b, 1, value)

\* The end of Get: n = found key.
GetFound(h, n) ==
    IF h[n].isTerminal
    THEN [value |-> h[n].value, ok |-> TRUE, panic |-> FALSE]
    ELSE [value |-> Zero, ok |-> FALSE, panic |-> FALSE]

RECURSIVE GetLoop(_, _, _, _)
GetLoop(h, n, key, i) ==
    IF i > Len(key)
    THEN GetFound(h, n)
    ELSE LET s == search(h, n, key[i])
         IN  IF ~s.found
             THEN [value |-> Zero, ok |-> FALSE, panic |-> FALSE]
             ELSE GetLoop(h, h[n].children[s.index], key, i + 1)

\* node.Get
Get(h, n, key) ==
    IF key.isNil
    THEN [value |-> Zero, ok |-> FALSE, panic |-> TRUE]
    ELSE GetLoop(h, n, key.b, 1)

\* Mutant of Unlink: the shortened slice is not stored back.
UnlinkNothing(children, pruneIndex) == children

\* The removal of Delete: prune.children without the child at pruneIndex.
Unlink(children, pruneIndex) == RemoveAt(children, pruneIndex)

\* Mutant of IsAnchor: a node with several children is not an anchor.
IsAnchorTerminalOnly(h, n) == h[n].isTerminal

\* Mutant of IsAnchor: a terminal node with one child is not an anchor.
IsAnchorSeveralChildrenOnly(h, n) == Len(h[n].children) > 1

\* Whether the descent of Delete moves the prune anchor to n.
IsAnchor(h, n) == h[n].isTerminal \/ Len(h[n].children) > 1

\* Mutant of DeleteFound: the terminal flag is left set.
DeleteFoundStaysTerminal(h, n, prune, pruneIndex) ==
    IF ~h[n].isTerminal
    THEN [h |-> h, value |-> Zero, ok |-> FALSE, panic |-> FALSE]
    ELSE LET h1 == [h EXCEPT ![n].value = Zero]
             h2 == IF Len(h[n].children) = 0
                   THEN [h1 EXCEPT ![prune].children = Unlink(@, pruneIndex)]
                   ELSE h1
         IN  [h |-> h2, value |-> h[n].value, ok |-> TRUE, panic |-> FALSE]

\* Mutant of DeleteFound: no check that the found node is terminal.
DeleteFoundUnchecked(h, n, prune, pruneIndex) ==
    LET h1 == [h EXCEPT ![n].value = Zero, ![n].isTerminal = FALSE]
        h2 == IF Len(h[n].children) = 0
              THEN [h1 EXCEPT ![prune].children = Unlink(@, pruneIndex)]
              ELSE h1
    IN  [h |-> h2, value |-> h[n].value, ok |-> TRUE, panic |-> FALSE]

\* Mutant of DeleteFound: the value is left in the node.
DeleteFoundKeepsValue(h, n, prune, pruneIndex) ==
    IF ~h[n].isTerminal
    THEN [h |-> h, value |-> Zero, ok |-> FALSE, panic |-> FALSE]
    ELSE LET h1 == [h EXCEPT ![n].isTerminal = FALSE]
             h2 == IF Len(h[n].children) = 0
                   THEN [h1 EXCEPT ![prune].children = Unlink(@, pruneIndex)]
                   ELSE h1
         IN  [h |-> h2, value |-> h[n].value, ok |-> TRUE, panic |-> FALSE]

\* The end of Delete: n = found key; clear it and, if it has no children,
\* remove the subtree rooted at prune.children[pruneIndex].
DeleteFound(h, n, prune, pruneIndex) ==
    IF ~h[n].isTerminal
    THEN [h |-> h, value |-> Zero, ok |-> FALSE, panic |-> FALSE]
    ELSE LET h1 == [h EXCEPT ![n].value = Zero, ![n].isTerminal = FALSE]
             h2 == IF Len(h[n].children) = 0
                   THEN [h1 EXCEPT ![prune].children = Unlink(@, pruneIndex)]
                   ELSE h1
         IN  [h |-> h2, value |-> h[n].value, ok |-> TRUE, panic |-> FALSE]

RECURSIVE DeleteLoop(_, _, _, _, _, _)
DeleteLoop(h, n, key, i, prune, pruneIndex) ==
    IF i > Len(key)
    THEN DeleteFound(h, n, prune, pruneIndex)
    ELSE LET s == search(h, n, key[i])
         IN  IF ~s.found
             THEN [h |-> h, value |-> Zero, ok |-> FALSE, panic |-> FALSE]
             ELSE IF IsAnchor(h, n)
                  THEN DeleteLoop(h, h[n].children[s.index], key, i + 1, n, s.index)
                  ELSE DeleteLoop(h, h[n].children[s.index], key, i + 1,
                                  prune, pruneIndex)

\* Mutant of Delete: deleting the empty key drops the root's children too.
DeletePrunesRoot(h, n, key) ==
    IF key.isNil
    THEN [h |-> h, value |-> Zero, ok |-> FALSE, panic |-> TRUE]
    ELSE IF Len(key.b) = 0
    THEN IF ~h[n].isTerminal
         THEN [h |-> h, value |-> Zero, ok |-> FALSE, panic |-> FALSE]
         ELSE [h |-> [h EXCEPT ![n].value = Zero, ![n].isTerminal = FALSE,
                               ![n].children = <<>>],
               value |-> h[n].value, ok |-> TRUE, panic |-> FALSE]
    ELSE DeleteLoop(h, n, key.b, 1, n, 1)

\* node.Delete
Delete(h, n, key) ==
    IF key.isNil
    THEN [h |-> h, value |-> Zero, ok |-> FALSE, panic |-> TRUE]
    ELSE IF Len(key.b) = 0
    THEN IF ~h[n].isTerminal
         THEN [h |-> h, value |-> Zero, ok |-> FALSE, panic |-> FALSE]
         ELSE [h |-> [h EXCEPT ![n].value = Zero, ![n].isTerminal = FALSE],
               value |-> h[n].value, ok |-> TRUE, panic |-> FALSE]
    ELSE DeleteLoop(h, n, key.b, 1, n, 1)

\* The addresses reachable from n through children.
RECURSIVE Reach(_, _)
Reach(h, n) ==
    {n} \cup UNION {Reach(h, h[n].children[i]) : i \in 1..Len(h[n].children)}

\* Garbage collection: only the nodes reachable from a root, or from a path a
\* live Range sequence holds, stay live.
Collect(h, rs) ==
    LET held == {it.stack[j].path.node : j \in 1..Len(it.stack)}
        live == UNION {Reach(h, rs[i]) : i \in DOMAIN rs}
                    \cup UNION {Reach(h, a) : a \in held}
    IN  [a \in live |-> h[a]]

(***************************************************************************)
(* Bounds.  Its code is not among the sources; it is modelled from the     *)
(* specification (sections 3, 4.2 and 6) and from the way Range,           *)
(* forwardChildAdj and reverseChildAdj use it: Compare's result is         *)
(* negative for a key the walk reaches before the range (skipped) and      *)
(* positive for a key past its end (the walk stops), in either direction,  *)
(* and childBounds returns the byte the walk starts at, then the byte it   *)
(* stops at.                                                               *)
(***************************************************************************)

\* bytes.Compare: -1, 0 or 1 as a is less than, equal to or greater than b
\* in lexicographic byte order.
RECURSIVE BytesCompare(_, _)
BytesCompare(a, b) ==
    IF Len(a) = 0 THEN (IF Len(b) = 0 THEN 0 ELSE -1)
    ELSE IF Len(b) = 0 THEN 1
    ELSE IF a[1] < b[1] THEN -1
    ELSE IF a[1] > b[1] THEN 1
    ELSE BytesCompare(Tail(a), Tail(b))

\* An edge of a range: unbounded, or a key with an inclusive flag.
Unbounded == [unb |-> TRUE, key |-> <<>>, incl |-> FALSE]
Edge(key, incl) == [unb |-> FALSE, key |-> key, incl |-> incl]

\* From(x).To(y): forward, [x, y).
FromTo(x, y) == [reverse |-> FALSE, low |-> Edge(x, TRUE), high |-> Edge(y, FALSE)]

\* From(x).DownTo(y): reverse, (y, x].
FromDownTo(x, y) == [reverse |-> TRUE, low |-> Edge(y, FALSE), high |-> Edge(x, TRUE)]

forwardAll == [reverse |-> FALSE, low |-> Unbounded, high |-> Unbounded]
reverseAll == [reverse |-> TRUE, low |-> Unbounded, high |-> Unbounded]

\* Bounds.Clone: a copy of the three parts.
BoundsClone(b) == [reverse |-> b.reverse, low |-> b.low, high |-> b.high]

IsReverse(b) == b.reverse

\* Where key lies in ascending order: -1 below the low edge, 1 above the
\* high edge, 0 within.
CompareAsc(b, key) ==
    LET lo == IF b.low.unb THEN 1 ELSE BytesCompare(key, b.low.key)
        hi == IF b.high.unb THEN -1 ELSE BytesCompare(key, b.high.key)
    IN  IF lo < 0 \/ (lo = 0 /\ ~b.low.incl) THEN -1
        ELSE IF hi > 0 \/ (hi = 0 /\ ~b.high.incl) THEN 1
        ELSE 0

\* Bounds.Compare: negative before the range, positive after it, in the
\* direction of the bounds.
Compare(b, key) == IF b.reverse THEN 0 - CompareAsc(b, key) ELSE CompareAsc(b, key)

\* The least next byte the low edge admits below the prefix p, if any.
LowByte(e, p) ==
    IF e.unb THEN [ok |-> TRUE, byte |-> 0]
    ELSE IF Len(p) < Len(e.key) /\ SubSeq(e.key, 1, Len(p)) = p
    THEN [ok |-> TRUE, byte |-> e.key[Len(p) + 1]]
    ELSE IF BytesCompare(p, e.key) >= 0 THEN [ok |-> TRUE, byte |-> 0]
    ELSE [ok |-> FALSE, byte |-> 0]

\* The greatest next byte the high edge admits below the prefix p, if any.
HighByte(e, p) ==
    IF e.unb THEN [ok |-> TRUE, byte |-> MaxByte]
    ELSE IF Len(p) < Len(e.key) /\ SubSeq(e.key, 1, Len(p)) = p
    THEN [ok |-> TRUE, byte |-> e.key[Len(p) + 1]]
    ELSE IF BytesCompare(p, e.key) < 0 THEN [ok |-> TRUE, byte |-> MaxByte]
    ELSE [ok |-> FALSE, byte |-> MaxByte]

\* Bounds.childBounds: the next bytes admitted below the prefix p, as the
\* byte the walk starts at and the byte it stops at, and whether any is.
childBounds(b, p) ==
    LET lo == LowByte(b.low, p)
        hi == HighByte(b.high, p)
        ok == lo.ok /\ hi.ok /\ lo.byte <= hi.byte
    IN  IF b.reverse THEN [start |-> hi.byte, stop |-> lo.byte, ok |-> ok]
        ELSE [start |-> lo.byte, stop |-> hi.byte, ok |-> ok]

(***************************************************************************)
(* Range and the traversers.                                               *)
(***************************************************************************)

\* rangePath{node, key}
RangePath(node, key) == [node |-> node, key |-> key]

\* Mutant of forwardChildren: the loop does not end at the first child above
\* stop.
RECURSIVE forwardChildrenNoStop(_, _, _, _, _)
forwardChildrenNoStop(h, path, i, start, stop) ==
    LET ch == h[path.node].children
    IN  IF i > Len(ch) THEN <<>>
        ELSE LET keyByte == h[ch[i]].keyByte
             IN  IF keyByte < start
                 THEN forwardChildrenNoStop(h, path, i + 1, start, stop)
                 ELSE <<RangePath(ch[i], Append(path.key, keyByte))>>
                          \o forwardChildrenNoStop(h, path, i + 1, start, stop)

\* Mutant of forwardChildren: the child of the byte start is passed over too.
RECURSIVE forwardChildrenAfterStart(_, _, _, _, _)
forwardChildrenAfterStart(h, path, i, start, stop) ==
    LET ch == h[path.node].children
    IN  IF i > Len(ch) THEN <<>>
        ELSE LET keyByte == h[ch[i]].keyByte
             IN  IF keyByte <= start
                 THEN forwardChildrenAfterStart(h, path, i + 1, start, stop)
                 ELSE IF keyByte > stop THEN <<>>
                 ELSE <<RangePath(ch[i], Append(path.key, keyByte))>>
                          \o forwardChildrenAfterStart(h, path, i + 1, start, stop)

\* The loop of forwardChildAdj's sequence over children[i..].
RECURSIVE forwardChildren(_, _, _, _, _)
forwardChildren(h, path, i, start, stop) ==
    LET ch == h[path.node].children
    IN  IF i > Len(ch) THEN <<>>
        ELSE LET keyByte == h[ch[i]].keyByte
             IN  IF keyByte < start THEN forwardChildren(h, path, i + 1, start, stop)
                 ELSE IF keyByte > stop THEN <<>>
                 ELSE <<RangePath(ch[i], Append(path.key, keyByte))>>
                          \o forwardChildren(h, path, i + 1, start, stop)

\* forwardChildAdj(bounds)(path)
forwardChildAdj(h, bounds, path) ==
    LET cb == childBounds(bounds, path.key)
    IN  IF ~cb.ok THEN <<>>
        ELSE forwardChildren(h, path, 1, cb.start, cb.stop)

\* Mutant of reverseChildren: the loop runs from the first child up.
reverseChildrenAscending(h, path, i, start, stop) ==
    forwardChildren(h, path, 1, stop, start)

\* The loop of reverseChildAdj's sequence over children[i], children[i-1], ...
RECURSIVE reverseChildren(_, _, _, _, _)
reverseChildren(h, path, i, start, stop) ==
    LET ch == h[path.node].children
    IN  IF i < 1 THEN <<>>
        ELSE LET keyByte == h[ch[i]].keyByte
             IN  IF keyByte > start THEN reverseChildren(h, path, i - 1, start, stop)
                 ELSE IF keyByte < stop THEN <<>>
                 ELSE <<RangePath(ch[i], Append(path.key, keyByte))>>
                          \o reverseChildren(h, path, i - 1, start, stop)

\* reverseChildAdj(bounds)(path)
reverseChildAdj(h, bounds, path) ==
    LET cb == childBounds(bounds, path.key)
    IN  IF ~cb.ok THEN <<>>
        ELSE reverseChildren(h, path, Len(h[path.node].children), cb.start, cb.stop)

\* The consumer of a Range sequence, which breaks out of its loop after
\* `take` pairs (never, if take is NoLimit), and what it has received.
NoLimit == 0 - 1
Consumer(take) == [out |-> <<>>, visited |-> <<>>, take |-> take, done |-> FALSE]

\* Mutant of RangeVisit: a path within the bounds is yielded whether its node
\* is terminal or not.
RangeVisitAnyNode(h, bounds, path, st) ==
    LET cmp == Compare(bounds, path.key)
        st1 == [st EXCEPT !.visited = Append(@, path.key)]
    IN  IF cmp < 0 THEN st1
        ELSE IF cmp > 0 THEN [st1 EXCEPT !.done = TRUE]
        ELSE [st1 EXCEPT !.out = Append(@, <<path.key, h[path.node].value>>),
                         !.done = (Len(st.out) + 1 = st.take)]

\* Mutant of RangeVisit: a key past the range is skipped like one before it.
RangeVisitNeverStops(h, bounds, path, st) ==
    LET cmp == Compare(bounds, path.key)
        st1 == [st EXCEPT !.visited = Append(@, path.key)]
    IN  IF cmp # 0 THEN st1
        ELSE IF h[path.node].isTerminal
        THEN [st1 EXCEPT !.out = Append(@, <<path.key, h[path.node].value>>),
                         !.done = (Len(st.out) + 1 = st.take)]
        ELSE st1

\* Mutant of RangeVisit: the walk stops at a key before the range as it does
\* at a key past it.
RangeVisitStopsBefore(h, bounds, path, st) ==
    LET cmp == Compare(bounds, path.key)
        st1 == [st EXCEPT !.visited = Append(@, path.key)]
    IN  IF cmp # 0 THEN [st1 EXCEPT !.done = TRUE]
        ELSE IF h[path.node].isTerminal
        THEN [st1 EXCEPT !.out = Append(@, <<path.key, h[path.node].value>>),
                         !.done = (Len(st.out) + 1 = st.take)]
        ELSE st1

\* The body of Range's loop over the paths, for one path: st.done says that
\* the yield function given to the traverser returned false.
RangeVisit(h, bounds, path, st) ==
    LET cmp == Compare(bounds, path.key)
        st1 == [st EXCEPT !.visited = Append(@, path.key)]
    IN  IF cmp < 0 THEN st1
        ELSE IF cmp > 0 THEN [st1 EXCEPT !.done = TRUE]
        ELSE IF h[path.node].isTerminal
        THEN [st1 EXCEPT !.out = Append(@, <<path.key, h[path.node].value>>),
                         !.done = (Len(st.out) + 1 = st.take)]
        ELSE st1

\* preOrderRecurse, with adj = forwardChildAdj(bounds) and yield = the body
\* of Range's loop; the result's done is the value returned.
RECURSIVE preOrderRecurse(_, _, _, _), preOrderEach(_, _, _, _, _)

\* Mutant of preOrderRecurse: the path is yielded after its children.
preOrderYieldsLast(h, bounds, path, st) ==
    LET st1 == preOrderEach(h, bounds, forwardChildAdj(h, bounds, path), 1, st)
    IN  IF st1.done THEN st1
        ELSE RangeVisit(h, bounds, path, st1)

preOrderRecurse(h, bounds, path, st) ==
    LET st1 == RangeVisit(h, bounds, path, st)
    IN  IF st1.done THEN st1
        ELSE preOrderEach(h, bounds, forwardChildAdj(h, bounds, path), 1, st1)

\* The loop of preOrderRecurse over adj(path), from its i-th node on.
preOrderEach(h, bounds, nodes, i, st) ==
    IF i > Len(nodes) THEN st
    ELSE LET st1 == preOrderRecurse(h, bounds, nodes[i], st)
         IN  IF st1.done THEN st1
             ELSE preOrderEach(h, bounds, nodes, i + 1, st1)

\* postOrder's recursion, with adj = reverseChildAdj(bounds): the nodes of
\* adj(path) first, then the path itself.
RECURSIVE postOrderRecurse(_, _, _, _), postOrderEach(_, _, _, _, _)
postOrderRecurse(h, bounds, path, st) ==
    LET st1 == postOrderEach(h, bounds, reverseChildAdj(h, bounds, path), 1, st)
    IN  IF st1.done THEN st1
        ELSE RangeVisit(h, bounds, path, st1)

postOrderEach(h, bounds, nodes, i, st) ==
    IF i > Len(nodes) THEN st
    ELSE LET st1 == postOrderRecurse(h, bounds, nodes[i], st)
         IN  IF st1.done THEN st1
             ELSE postOrderEach(h, bounds, nodes, i + 1, st1)

\* node.Range(bounds), consumed by a consumer that takes `take` pairs.
Range(h, n, b, take) ==
    LET bounds == BoundsClone(b)
        root == RangePath(n, <<>>)
    IN  IF IsReverse(bounds)
        THEN postOrderRecurse(h, bounds, root, Consumer(take))
        ELSE preOrderRecurse(h, bounds, root, Consumer(take))

\* The Bounds the model ranges over: both sentinels and every From(x).To(y)
\* and From(y).DownTo(x) with x <= y.
AllBounds ==
    {forwardAll, reverseAll}
        \cup {FromTo(x, y) : <<x, y>> \in {xy \in Keys \X Keys : BytesCompare(xy[1], xy[2]) <= 0}}
        \cup {FromDownTo(y, x) : <<x, y>> \in {xy \in Keys \X Keys : BytesCompare(xy[1], xy[2]) <= 0}}

(***************************************************************************)
(* The traverser by itself (src/traversers.go, lines 9-26): preOrder over  *)
(* any adjacency function, yielding paths.  A graph g gives every vertex   *)
(* the sequence of its successors, and adj(path) is g[last vertex of       *)
(* path].  A yielded path is recorded as it is when yield is called (the   *)
(* code reuses the slice afterwards).                                      *)
(***************************************************************************)

Vertices == 0..MaxVertex

\* The sequences of distinct vertices greater than v.
Orders(v) ==
    {s \in UNION {[1..n -> (v + 1)..MaxVertex] : n \in 0..(MaxVertex - v)} :
        \A i, j \in 1..Len(s) : i # j => s[i] # s[j]}

\* The graphs on the vertices v..MaxVertex whose edges go from a vertex to a
\* greater one: finite and without cycles.
RECURSIVE GraphsFrom(_)
GraphsFrom(v) ==
    IF v > MaxVertex THEN {<<>>}
    ELSE {(v :> s) @@ g : s \in Orders(v), g \in GraphsFrom(v + 1)}

Graphs == GraphsFrom(0)

\* The consumer of the paths, which stops after `take` paths.
PathConsumer(take) == [out |-> <<>>, take |-> take, done |-> FALSE]

\* yield(path)
PathYield(st, path) ==
    [st EXCEPT !.out = Append(@, path), !.done = (Len(st.out) + 1 = st.take)]

RECURSIVE preOrderPaths(_, _, _), preOrderPathsEach(_, _, _, _, _)

\* Mutant of preOrderPaths: the path is yielded after the loop over adj(path).
preOrderPathsYieldsLast(g, path, st) ==
    LET st1 == preOrderPathsEach(g, path, g[path[Len(path)]], 1, st)
    IN  IF st1.done THEN st1
        ELSE PathYield(st1, path)

\* preOrderRecurse(path, adj, yield); the result's done is the value returned.
preOrderPaths(g, path, st) ==
    LET st1 == PathYield(st, path)
    IN  IF st1.done THEN st1
        ELSE preOrderPathsEach(g, path, g[path[Len(path)]], 1, st1)

\* The loop of preOrderRecurse over adj(path), from its i-th node on.
preOrderPathsEach(g, path, nodes, i, st) ==
    IF i > Len(nodes) THEN st
    ELSE LET st1 == preOrderPaths(g, Append(path, nodes[i]), st)
         IN  IF st1.done THEN st1
             ELSE preOrderPathsEach(g, path, nodes, i + 1, st1)

\* preOrder(root, adj), consumed by a consumer that takes `take` paths.
preOrder(g, root, take) == preOrderPaths(g, <<root>>, PathConsumer(take))

(***************************************************************************)
(* A Range sequence in steps.  The recursion of the traverser is kept as   *)
(* an explicit stack of frames, one per active call of preOrderRecurse     *)
(* (or of postOrder's recursion), so that the sequence can be held by a    *)
(* consumer between two pairs: the consumer's loop body runs inside the    *)
(* yield call, and the engine goes on only when that call returns.         *)
(*                                                                         *)
(* A frame is at "yield" (about to call yield(path)), at "adj" (about to   *)
(* call adj(path)) or at "loop" (ranging over adj(path), the child at      *)
(* index i being the next one looked at).  rv is what the call that has    *)
(* just returned to the top frame returned: "done" (true), "more" (false), *)
(* or "call" when no call has just returned.                               *)
(***************************************************************************)

Frame(path, pc) ==
    [path |-> path, pc |-> pc, i |-> 0,
     cb |-> [start |-> 0, stop |-> 0, ok |-> FALSE]]

\* No sequence.
NoSeq ==
    [pos |-> "none", inst |-> "t", caller |-> forwardAll, bounds |-> forwardAll,
     root |-> RangePath(NewAddr("t", <<>>), <<>>), stack |-> <<>>, rv |-> "call",
     c |-> Consumer(NoLimit), log |-> <<>>, expect |-> <<>>]

\* node.Range(bounds) up to its return: the bounds are cloned, the root path
\* and the closures are built, and nothing is called yet.
RangeSeq(inst, n, b) ==
    [NoSeq EXCEPT !.pos = "new", !.inst = inst, !.caller = b,
                  !.bounds = BoundsClone(b), !.root = RangePath(n, <<>>)]

Top(m) == m.stack[Len(m.stack)]

SetTop(m, f) == [m EXCEPT !.stack[Len(m.stack)] = f, !.rv = "call"]

Push(m, f) == [m EXCEPT !.stack = Append(@, f), !.rv = "call"]

\* The top frame returns rv to its caller.
Return(m, rv) == [m EXCEPT !.stack = SubSeq(@, 1, Len(@) - 1), !.rv = rv]

Log(m, kind, key) == [m EXCEPT !.log = Append(@, <<kind, key>>)]

\* The pc a frame starts at: preOrderRecurse yields its path first, postOrder's
\* recursion ranges over adj(path) first.
FirstPc(bounds) == IF IsReverse(bounds) THEN "adj" ELSE "yield"

\* The consumer starts ranging over the sequence: preOrder (or postOrder)
\* calls its recursion with the root path.
Start(m) == Push([m EXCEPT !.pos = "run"], Frame(m.root, FirstPc(m.bounds)))

\* preOrderRecurse after yield(path) returned: true if more is wanted.
preOrderYielded(m, more) ==
    IF ~more THEN Return(m, "done")
    ELSE SetTop(m, [Top(m) EXCEPT !.pc = "adj"])

\* postOrder's recursion after yield(path) returned: it returns !yield(path).
postOrderYielded(m, more) == Return(m, IF more THEN "more" ELSE "done")

Yielded(m, more) ==
    IF IsReverse(m.bounds) THEN postOrderYielded(m, more)
    ELSE preOrderYielded(m, more)

\* The loop over adj(path) has come to its end: preOrderRecurse returns
\* false, postOrder's recursion goes on to yield(path).
LoopEnd(m) ==
    IF IsReverse(m.bounds) THEN SetTop(m, [Top(m) EXCEPT !.pc = "yield"])
    ELSE Return(m, "more")

\* The loop over the children goes on to the next index: up for
\* forwardChildAdj, down for reverseChildAdj.
NextChild(m) ==
    SetTop(m, [Top(m) EXCEPT !.i = IF IsReverse(m.bounds) THEN @ - 1 ELSE @ + 1])

\* Mutant of LoopReturned: the value the recursive call returned is dropped.
LoopReturnedDropsDone(m) == NextChild(m)

\* The recursive call for a child has returned to the loop over adj(path):
\* true is returned at once, through the child sequence and this frame;
\* otherwise the loop goes on to the next child.
LoopReturned(m) ==
    IF m.rv = "done" THEN Return(m, "done")
    ELSE NextChild(m)

\* yield(path): the body of Range's loop for the top frame's path.  If it
\* calls the consumer's yield, the sequence is held there.
StepYield(h, m) ==
    LET path == Top(m).path
        c == RangeVisit(h, m.bounds, path, m.c)
        m1 == Log([m EXCEPT !.c = c], "visit", path.key)
    IN  IF c.done THEN Yielded(m1, FALSE)
        ELSE IF Len(c.out) > Len(m.c.out) THEN [m1 EXCEPT !.pos = "held"]
        ELSE Yielded(m1, TRUE)

\* Mutant of StepAdj: the children of the path are all produced when adj(path)
\* is called, before the loop over them starts.
StepAdjEager(h, m) ==
    LET f == Top(m)
        cb == childBounds(m.bounds, f.path.key)
        first == IF IsReverse(m.bounds) THEN Len(h[f.path.node].children) ELSE 1
        nodes == IF IsReverse(m.bounds) THEN reverseChildAdj(h, m.bounds, f.path)
                 ELSE forwardChildAdj(h, m.bounds, f.path)
        m1 == [m EXCEPT !.log = @ \o <<<<"adj", f.path.key>>>>
                                  \o [j \in 1..Len(nodes) |-> <<"child", nodes[j].key>>]]
    IN  IF ~cb.ok THEN LoopEnd(m1)
        ELSE SetTop(m1, [f EXCEPT !.pc = "loop", !.cb = cb, !.i = first])

\* adj(path): the call of childBounds, before any child is looked at.
StepAdj(h, m) ==
    LET f == Top(m)
        cb == childBounds(m.bounds, f.path.key)
        first == IF IsReverse(m.bounds) THEN Len(h[f.path.node].children) ELSE 1
        m1 == Log(m, "adj", f.path.key)
    IN  IF ~cb.ok THEN LoopEnd(m1)
        ELSE SetTop(m1, [f EXCEPT !.pc = "loop", !.cb = cb, !.i = first])

\* One turn of the loop of forwardChildAdj's sequence, or of
\* reverseChildAdj's: the child at index i is skipped, ends the sequence, or
\* is yielded, and then the traverser calls its recursion for it.
StepChild(h, m) ==
    LET f == Top(m)
        ch == h[f.path.node].children
    IN  IF f.i < 1 \/ f.i > Len(ch) THEN LoopEnd(m)
        ELSE LET keyByte == h[ch[f.i]].keyByte
                 key == Append(f.path.key, keyByte)
                 before == IF IsReverse(m.bounds) THEN keyByte > f.cb.start
                           ELSE keyByte < f.cb.start
                 past == IF IsReverse(m.bounds) THEN keyByte < f.cb.stop
                         ELSE keyByte > f.cb.stop
             IN  IF before THEN NextChild(m)
                 ELSE IF past THEN LoopEnd(m)
                 ELSE Push(Log(m, "child", key),
                           Frame(RangePath(ch[f.i], key), FirstPc(m.bounds)))

\* One step of the engine.
Step(h, m) ==
    IF Len(m.stack) = 0 THEN [m EXCEPT !.pos = "end", !.rv = "call"]
    ELSE IF m.rv # "call" THEN LoopReturned(m)
    ELSE IF Top(m).pc = "yield" THEN StepYield(h, m)
    ELSE IF Top(m).pc = "adj" THEN StepAdj(h, m)
    ELSE StepChild(h, m)

\* The engine runs until the consumer's yield is called or the sequence ends.
RECURSIVE Run(_, _)
Run(h, m) == IF m.pos = "run" THEN Run(h, Step(h, m)) ELSE m

\* The consumer's yield returns: true to go on, false to stop.
Resume(m, more) == Yielded([m EXCEPT !.pos = "run"], more)

\* The sequence consumed from where it is to its end by a consumer that
\* never stops.
RECURSIVE Drain(_, _)
Drain(h, m) ==
    IF m.pos = "new" THEN Drain(h, Run(h, Start(m)))
    ELSE IF m.pos = "held" THEN Drain(h, Run(h, Resume(m, TRUE)))
    ELSE m

\* Clone, which is not among the sources, is modelled from the specification
\* (section 4.1): a copy of every node reachable from n, none shared.  The
\* copy of the node with byte path p gets the address NewAddr(dst, p).
RECURSIVE CloneNodes(_, _, _, _), CloneEach(_, _, _, _, _)
CloneNodes(h, n, dst, p) ==
    LET ch == h[n].children
        copy == Node(h[n].value,
                     [i \in 1..Len(ch) |-> NewAddr(dst, Append(p, h[ch[i]].keyByte))],
                     h[n].keyByte, h[n].isTerminal)
    IN  (NewAddr(dst, p) :> copy) @@ CloneEach(h, ch, 1, dst, p)

\* The copies of the subtrees of the children ch[i..] of the node at path p.
CloneEach(h, ch, i, dst, p) ==
    IF i > Len(ch) THEN <<>>
    ELSE CloneNodes(h, ch[i], dst, Append(p, h[ch[i]].keyByte))
             @@ CloneEach(h, ch, i + 1, dst, p)

\* Mutant of Clone: only the root struct is copied, with its children slice.
CloneShallow(h, n, dst) == NewAddr(dst, <<>>) :> h[n]

\* node.Clone: the new nodes, the root copy being at NewAddr(dst, <<>>).
Clone(h, n, dst) == CloneNodes(h, n, dst, <<>>)

\* NewPointerTrie: a non-terminal root without children.
NewPointerTrie == Node(Zero, <<>>, 0, FALSE)

NoRet ==
    [op |-> "new", inst |-> "t", key |-> KeyOf(<<>>), arg |-> Zero,
     value |-> Zero, ok |-> FALSE, panic |-> FALSE,
     bounds |-> forwardAll, out |-> <<>>]

Init ==
    /\ roots = [i \in {"t"} |-> NewAddr("t", <<>>)]
    /\ heap = [a \in {NewAddr("t", <<>>)} |-> NewPointerTrie]
    /\ ref = [i \in {"t"} |-> <<>>]
    /\ refPrev = ref
    /\ ret = NoRet
    /\ it = NoSeq

\* The reference sorted map's Put and Delete.
RefPut(m, b, v) == [k \in DOMAIN m \cup {b} |-> IF k = b THEN v ELSE m[k]]

RefDelete(m, b) == [k \in DOMAIN m \ {b} |-> m[k]]

\* The number of keys the instances hold together.
KeyCount ==
    LET n(i) == IF i \in DOMAIN roots THEN Cardinality(DOMAIN ref[i]) ELSE 0
    IN  n("t") + n("c")

DoPut(i, b, v) ==
    /\ b \in DOMAIN ref[i] \/ KeyCount < MaxKeys
    /\ LET r == Put(heap, roots[i], i, KeyOf(b), v)
       IN  /\ heap' = Collect(r.h, roots)
           /\ ret' = [op |-> "Put", inst |-> i, key |-> KeyOf(b), arg |-> v,
                      value |-> r.value, ok |-> r.ok, panic |-> r.panic,
                      bounds |-> forwardAll, out |-> <<>>]
    /\ refPrev' = ref
    /\ ref' = [ref EXCEPT ![i] = RefPut(@, b, v)]
    /\ UNCHANGED <<roots, it>>

\* Mutant of DoGet: the descent creates the nodes it does not find, as Put's
\* does, with the zero value.
DoGetCreates(i, b) ==
    /\ LET r == Get(heap, roots[i], KeyOf(b))
           w == PutLoop(heap, roots[i], i, b, 1, Zero)
       IN  /\ heap' = Collect(IF r.ok THEN heap ELSE w.h, roots)
           /\ ret' = [op |-> "Get", inst |-> i, key |-> KeyOf(b), arg |-> Zero,
                      value |-> r.value, ok |-> r.ok, panic |-> r.panic,
                      bounds |-> forwardAll, out |-> <<>>]
    /\ refPrev' = ref
    /\ UNCHANGED <<roots, ref, it>>

DoGet(i, b) ==
    /\ LET r == Get(heap, roots[i], KeyOf(b))
       IN  ret' = [op |-> "Get", inst |-> i, key |-> KeyOf(b), arg |-> Zero,
                   value |-> r.value, ok |-> r.ok, panic |-> r.panic,
                      bounds |-> forwardAll, out |-> <<>>]
    /\ refPrev' = ref
    /\ UNCHANGED <<heap, roots, ref, it>>

\* Range(bounds), consumed to its end.
DoRange(i, b) ==
    /\ LET r == Range(heap, roots[i], b, NoLimit)
       IN  ret' = [op |-> "Range", inst |-> i, key |-> KeyOf(<<>>), arg |-> Zero,
                   value |-> Zero, ok |-> FALSE, panic |-> FALSE,
                   bounds |-> b, out |-> r.out]
    /\ refPrev' = ref
    /\ UNCHANGED <<heap, roots, ref, it>>

DoDelete(i, b) ==
    /\ LET r == Delete(heap, roots[i], KeyOf(b))
       IN  /\ heap' = Collect(r.h, roots)
           /\ ret' = [op |-> "Delete", inst |-> i, key |-> KeyOf(b), arg |-> Zero,
                      value |-> r.value, ok |-> r.ok, panic |-> r.panic,
                      bounds |-> forwardAll, out |-> <<>>]
    /\ refPrev' = ref
    /\ ref' = [ref EXCEPT ![i] = RefDelete(@, b)]
    /\ UNCHANGED <<roots, it>>

\* Put, Get or Delete called with a nil key.
DoNil(i, op, v) ==
    /\ LET r == CASE op = "Put" -> Put(heap, roots[i], i, NilKey, v)
                  [] op = "Get" -> Get(heap, roots[i], NilKey) @@ [h |-> heap]
                  [] op = "Delete" -> Delete(heap, roots[i], NilKey)
       IN  /\ heap' = Collect(r.h, roots)
           /\ ret' = [op |-> op, inst |-> i, key |-> NilKey, arg |-> v,
                      value |-> r.value, ok |-> r.ok, panic |-> r.panic,
                      bounds |-> forwardAll, out |-> <<>>]
    /\ refPrev' = ref
    /\ UNCHANGED <<roots, ref, it>>

\* c = t.Clone(); a former c is dropped.
TakeClone ==
    /\ roots' = [i \in Insts |-> NewAddr(i, <<>>)]
    /\ heap' = Collect(Clone(heap, roots["t"], "c") @@ heap, roots')
    /\ ref' = [i \in Insts |-> ref["t"]]
    /\ refPrev' = ref
    /\ ret' = [op |-> "Clone", inst |-> "t", key |-> KeyOf(<<>>), arg |-> Zero,
               value |-> Zero, ok |-> FALSE, panic |-> FALSE,
               bounds |-> forwardAll, out |-> <<>>]
    /\ UNCHANGED it

\* Clone of a trie small enough for the clone to stay within MaxKeys.
DoClone ==
    /\ 2 * Cardinality(DOMAIN ref["t"]) <= MaxKeys
    /\ TakeClone

\* What ret records of a step of the Range sequence.
SeqRet(op, m) ==
    [op |-> op, inst |-> m.inst, key |-> KeyOf(<<>>), arg |-> Zero,
     value |-> Zero, ok |-> FALSE, panic |-> FALSE,
     bounds |-> m.caller, out |-> m.c.out]

\* seq := Range(bounds) on instance i.  expect, which the program does not
\* have, is what a full Range yields on the trie as it is now.
DoNewRange(i, b) ==
    /\ it.pos = "none"
    /\ it' = [RangeSeq(i, roots[i], b) EXCEPT
                 !.expect = Range(heap, roots[i], b, NoLimit).out]
    /\ ret' = SeqRet("NewRange", it')
    /\ refPrev' = ref
    /\ UNCHANGED <<heap, roots, ref>>

\* The consumer starts ranging over seq, or its loop body ends and the loop
\* goes on: the engine runs up to the next pair or to the end.
DoNext ==
    /\ it.pos \in {"new", "held"}
    /\ it' = Run(heap, IF it.pos = "new" THEN Start(it) ELSE Resume(it, TRUE))
    /\ ret' = SeqRet("Next", it')
    /\ refPrev' = ref
    /\ UNCHANGED <<heap, roots, ref>>

\* The consumer breaks out of its loop over seq.
DoBreak ==
    /\ it.pos = "held"
    /\ it' = Run(heap, Resume(it, FALSE))
    /\ ret' = SeqRet("Break", it')
    /\ refPrev' = ref
    /\ UNCHANGED <<heap, roots, ref>>

Next ==
    \E i \in DOMAIN roots :
        \/ \E b \in Keys, v \in Value : DoPut(i, b, v)
        \/ \E b \in Keys : DoGet(i, b)
        \/ \E b \in Keys : DoDelete(i, b)
        \/ \E op \in {"Put", "Get", "Delete"}, v \in Value : DoNil(i, op, v)

Spec == Init /\ [][Next]_vars

\* The mutations, and Range with every Bounds in every state they reach.
NextRange ==
    \E i \in DOMAIN roots :
        \/ \E b \in Keys, v \in Value : DoPut(i, b, v)
        \/ \E b \in Keys : DoDelete(i, b)
        \/ \E b \in AllBounds : DoRange(i, b)

SpecRange == Init /\ [][NextRange]_vars

\* The mutations of an instance and of its clone.
NextClone ==
    \/ DoClone
    \/ \E i \in DOMAIN roots :
           \/ \E b \in Keys, v \in Value : DoPut(i, b, v)
           \/ \E b \in Keys : DoDelete(i, b)

SpecClone == Init /\ [][NextClone]_vars

\* The Bounds the sequences of SpecIter are made with.
IterBounds ==
    {forwardAll, reverseAll, FromTo(<<0>>, <<1>>), FromDownTo(<<1>>, <<0>>),
     FromTo(<<0, 1>>, <<1, 1>>), FromDownTo(<<1, 0>>, <<0, 0>>)}

\* One Range sequence over t, consumed pair by pair by a loop whose body may
\* clone t, once, and may then call one operation of the clone before it goes
\* on or breaks.
InBody == it.pos = "held" /\ ret.op \in {"Next", "Clone"} /\ "c" \in DOMAIN roots

NextIter ==
    \/ \E b \in Keys : it.pos = "none" /\ DoPut("t", b, MaxVal)
    \/ \E b \in IterBounds : DoNewRange("t", b)
    \/ DoNext
    \/ DoBreak
    \/ it.pos = "held" /\ ret.op = "Next" /\ "c" \notin DOMAIN roots /\ TakeClone
    \/ \E b \in Keys, v \in Value : InBody /\ DoPut("c", b, v)
    \/ \E b \in Keys : InBody /\ DoDelete("c", b)
    \/ \E b \in Keys : InBody /\ DoGet("c", b)

SpecIter == Init /\ [][NextIter]_vars

\* preOrder(0, adj) for the adjacency of the graph g, consumed by a consumer
\* that takes `take` paths.
DoPreOrder(g, take) ==
    /\ ret.op = "new"
    /\ LET r == preOrder(g, 0, take)
       IN  ret' = [op |-> "preOrder", adj |-> g, take |-> take,
                   out |-> r.out, done |-> r.done]
    /\ UNCHANGED <<heap, roots, ref, refPrev, it>>

\* The traverser on every graph, consumed to the end or up to two paths.
NextTraverse == \E g \in Graphs, take \in {NoLimit, 1, 2} : DoPreOrder(g, take)

SpecTraverse == Init /\ [][NextTraverse]_vars

(***************************************************************************)
(* childBounds by itself (src/traversers.go, lines 142-179): applied to a  *)
(* bounds and a prefix.                                                    *)
(***************************************************************************)

\* Every byte sequence of at most MaxLen + 1 bytes: if a sequence that
\* extends a key of the model lies within a Bounds of the model, so does its
\* prefix of MaxLen + 1 bytes.
LongKeys == UNION {[1..n -> Byte] : n \in 0..(MaxLen + 1)}

\* A trie in which every node of at most MaxLen bytes has a child for every
\* byte, so that an adjacency over it shows every next byte it admits.
FullTrie ==
    [a \in {NewAddr("f", k) : k \in LongKeys} |->
        LET k == a[2]
        IN  Node(Zero,
                 IF Len(k) > MaxLen THEN <<>>
                 ELSE [x \in 1..(MaxByte + 1) |-> NewAddr("f", Append(k, x - 1))],
                 IF k = <<>> THEN 0 ELSE k[Len(k)],
                 TRUE)]

\* Every Bounds: either direction, each edge unbounded, inclusive or
\* exclusive, the low edge's key not above the high edge's.
Edges == {Unbounded} \cup {Edge(k, incl) : k \in Keys, incl \in BOOLEAN}
GenBounds ==
    {[reverse |-> r, low |-> lo, high |-> hi] :
        r \in BOOLEAN,
        <<lo, hi>> \in {e \in Edges \X Edges :
                           e[1].unb \/ e[2].unb \/ BytesCompare(e[1].key, e[2].key) <= 0}}

\* btrie.TestingChildBounds(&bounds, key)
DoChildBounds(b, p) ==
    /\ ret.op = "new"
    /\ LET cb == childBounds(b, p)
       IN  ret' = [op |-> "childBounds", bounds |-> b, key |-> p,
                   start |-> cb.start, stop |-> cb.stop, ok |-> cb.ok]
    /\ UNCHANGED <<heap, roots, ref, refPrev, it>>

NextBounds == \E b \in GenBounds, p \in Keys : DoChildBounds(b, p)

SpecBounds == Init /\ [][NextBounds]_vars

(***************************************************************************)
(* Range over the key buffers it shares (src/fuzz_test.go, lines 303-384). *)
(* A []byte is a slice of a backing array: mem is the sequence of the      *)
(* arrays allocated so far, each as long as its capacity, and a slice is   *)
(* an array and a length.  append writes in place while the capacity       *)
(* lasts, so the keys of a node's children, made one after another from    *)
(* the node's key, may all lie in one array.  The capacity append gives a  *)
(* new array is the build's choice: the length needed and grow more.       *)
(* A path carries, besides its node and key, the bytes of the nodes it     *)
(* came through (exact), which the code does not have.                     *)
(***************************************************************************)

Slice(arr, len) == [arr |-> arr, len |-> len]

\* The bytes of the slice s.
Bytes(mem, s) == SubSeq(mem[s.arr], 1, s.len)

\* append(s, byt)
AppendByte(mem, s, byt, grow) ==
    IF s.len < Len(mem[s.arr])
    THEN [mem |-> [mem EXCEPT ![s.arr][s.len + 1] = byt],
          s |-> Slice(s.arr, s.len + 1)]
    ELSE [mem |-> Append(mem, Bytes(mem, s) \o <<byt>> \o [x \in 1..grow |-> 0]),
          s |-> Slice(Len(mem) + 1, s.len + 1)]

\* bytes.Clone(s)
BytesClone(mem, s) ==
    [mem |-> Append(mem, Bytes(mem, s)), s |-> Slice(Len(mem) + 1, s.len)]

\* rangePath{node, key}, and the exact byte path of node.
BufPath(node, key, exact) == [node |-> node, key |-> key, exact |-> exact]

\* The memory and the consumer when Range starts: the root's key []byte{} is
\* the one array, of capacity 0.  A consumer that scribbles overwrites every
\* key it is given, once it has noted it.
BufConsumer(grow, scribble) ==
    [mem |-> << <<>> >>, events |-> <<>>, out |-> <<>>, done |-> FALSE,
     grow |-> grow, scribble |-> scribble]

\* The body of the consumer's loop, given the key slice and the value.
BufBody(st, key, value, exact) ==
    LET got == Bytes(st.mem, key)
        mem1 == IF st.scribble
                THEN [st.mem EXCEPT ![key.arr] = [x \in 1..Len(@) |-> MaxByte - @[x]]]
                ELSE st.mem
    IN  [st EXCEPT !.mem = mem1,
                   !.out = Append(@, [key |-> key, got |-> got, exact |-> exact,
                                      value |-> value])]

\* What Compare or childBounds was given for a path: the slice and its bytes
\* at the call.
BufEvent(kind, st, path) ==
    [kind |-> kind, key |-> path.key, read |-> Bytes(st.mem, path.key),
     exact |-> path.exact]

\* Mutant of BufVisit: path.key itself is yielded, not a clone of it.
BufVisitNoClone(h, bounds, path, st) ==
    LET cmp == Compare(bounds, Bytes(st.mem, path.key))
        st1 == [st EXCEPT !.events = Append(@, BufEvent("Compare", st, path))]
    IN  IF cmp < 0 THEN st1
        ELSE IF cmp > 0 THEN [st1 EXCEPT !.done = TRUE]
        ELSE IF h[path.node].isTerminal
        THEN BufBody(st1, path.key, h[path.node].value, path.exact)
        ELSE st1

\* The body of Range's loop over the paths, for one path.
BufVisit(h, bounds, path, st) ==
    LET cmp == Compare(bounds, Bytes(st.mem, path.key))
        st1 == [st EXCEPT !.events = Append(@, BufEvent("Compare", st, path))]
    IN  IF cmp < 0 THEN st1
        ELSE IF cmp > 0 THEN [st1 EXCEPT !.done = TRUE]
        ELSE IF h[path.node].isTerminal
        THEN LET c == BytesClone(st1.mem, path.key)
             IN  BufBody([st1 EXCEPT !.mem = c.mem], c.s, h[path.node].value,
                         path.exact)
        ELSE st1

\* preOrderRecurse over forwardChildAdj(bounds), each child's path made when
\* the loop over the children reaches it.
RECURSIVE preOrderBuf(_, _, _, _), forwardChildrenBuf(_, _, _, _, _, _)
preOrderBuf(h, bounds, path, st) ==
    LET st1 == BufVisit(h, bounds, path, st)
        cb == childBounds(bounds, Bytes(st1.mem, path.key))
        st2 == [st1 EXCEPT !.events = Append(@, BufEvent("childBounds", st1, path))]
    IN  IF st1.done THEN st1
        ELSE IF ~cb.ok THEN st2
        ELSE forwardChildrenBuf(h, bounds, path, cb, 1, st2)

forwardChildrenBuf(h, bounds, path, cb, i, st) ==
    LET ch == h[path.node].children
    IN  IF i > Len(ch) THEN st
        ELSE LET keyByte == h[ch[i]].keyByte
                 a == AppendByte(st.mem, path.key, keyByte, st.grow)
                 child == BufPath(ch[i], a.s, Append(path.exact, keyByte))
                 st1 == preOrderBuf(h, bounds, child, [st EXCEPT !.mem = a.mem])
             IN  IF keyByte < cb.start
                 THEN forwardChildrenBuf(h, bounds, path, cb, i + 1, st)
                 ELSE IF keyByte > cb.stop THEN st
                 ELSE IF st1.done THEN st1
                 ELSE forwardChildrenBuf(h, bounds, path, cb, i + 1, st1)

\* postOrder's recursion over reverseChildAdj(bounds).
RECURSIVE postOrderBuf(_, _, _, _), reverseChildrenBuf(_, _, _, _, _, _)
postOrderBuf(h, bounds, path, st) ==
    LET cb == childBounds(bounds, Bytes(st.mem, path.key))
        st1 == [st EXCEPT !.events = Append(@, BufEvent("childBounds", st, path))]
        st2 == IF ~cb.ok THEN st1
               ELSE reverseChildrenBuf(h, bounds, path, cb,
                                       Len(h[path.node].children), st1)
    IN  IF st2.done THEN st2
        ELSE BufVisit(h, bounds, path, st2)

reverseChildrenBuf(h, bounds, path, cb, i, st) ==
    LET ch == h[path.node].children
    IN  IF i < 1 THEN st
        ELSE LET keyByte == h[ch[i]].keyByte
                 a == AppendByte(st.mem, path.key, keyByte, st.grow)
                 child == BufPath(ch[i], a.s, Append(path.exact, keyByte))
                 st1 == postOrderBuf(h, bounds, child, [st EXCEPT !.mem = a.mem])
             IN  IF keyByte > cb.start
                 THEN reverseChildrenBuf(h, bounds, path, cb, i - 1, st)
                 ELSE IF keyByte < cb.stop THEN st
                 ELSE IF st1.done THEN st1
                 ELSE reverseChildrenBuf(h, bounds, path, cb, i - 1, st1)

\* node.Range(bounds), consumed to its end.
RangeBuf(h, n, b, grow, scribble) ==
    LET bounds == BoundsClone(b)
        root == BufPath(n, Slice(1, 0), <<>>)
    IN  IF IsReverse(bounds)
        THEN postOrderBuf(h, bounds, root, BufConsumer(grow, scribble))
        ELSE preOrderBuf(h, bounds, root, BufConsumer(grow, scribble))

\* The extra capacity a new array gets: none, so that every append copies,
\* up to enough for every key of the model to be appended in place.
Grows == 0..MaxLen

DoRangeBuf(i, b, grow, scribble) ==
    /\ LET r == RangeBuf(heap, roots[i], b, grow, scribble)
       IN  ret' = [op |-> "RangeBuf", inst |-> i, bounds |-> b, grow |-> grow,
                   scribble |-> scribble, events |-> r.events, out |-> r.out,
                   mem |-> r.mem]
    /\ refPrev' = ref
    /\ UNCHANGED <<heap, roots, ref, it>>

\* The mutations, with one value, and Range with each Bounds of IterBounds,
\* every capacity and either consumer in every state they reach.
NextBuf ==
    \E i \in DOMAIN roots :
        \/ \E b \in Keys : DoPut(i, b, MaxVal)
        \/ \E b \in Keys : DoDelete(i, b)
        \/ \E b \in IterBounds, grow \in Grows, scribble \in BOOLEAN :
               DoRangeBuf(i, b, grow, scribble)

SpecBuf == Init /\ [][NextBuf]_vars

(***************************************************************************)
(* What the claims speak of.                                               *)
(***************************************************************************)

\* The byte paths of the nodes reachable from n, whose own path is p.
RECURSIVE Paths(_, _, _)
Paths(h, n, p) ==
    {p} \cup UNION {Paths(h, h[n].children[i],
                          Append(p, h[h[n].children[i]].keyByte))
                    : i \in 1..Len(h[n].children)}

\* The prefixes (the empty one and k included) of the keys of S.
Prefixes(S) == UNION {{SubSeq(k, 1, j) : j \in 0..Len(k)} : k \in S}

IsStrictPrefix(p, k) == Len(p) < Len(k) /\ SubSeq(k, 1, Len(p)) = p

\* What the reference sorted map returns for a lookup of b in m.
RefGet(m, b) ==
    IF b \in DOMAIN m THEN [value |-> m[b], ok |-> TRUE]
    ELSE [value |-> Zero, ok |-> FALSE]

Returned == [value |-> ret.value, ok |-> ret.ok]

\* C1: every Put, Get and Delete with a non-nil key returns what the
\* reference sorted map returns for the same call: (previous or current
\* value, true) if the key was stored before the call, (zero, false) if not.
C1_SameAsReference ==
    (ret.op \in {"Put", "Get", "Delete"} /\ ~ret.key.isNil)
        => /\ ~ret.panic
           /\ Returned = RefGet(refPrev[ret.inst], ret.key.b)

\* C1's case: a Delete of a stored two-byte key, among other stored keys,
\* returned a non-zero previous value.
C1_Witness ==
    /\ ret.op = "Delete" /\ ret.ok /\ ret.value = 1
    /\ Len(ret.key.b) = 2
    /\ Cardinality(DOMAIN refPrev["t"]) = MaxKeys

\* Whether the key k satisfies the edges of b: at or above an inclusive low
\* edge, strictly above an exclusive one, and likewise below the high edge.
InBounds(b, k) ==
    /\ b.low.unb \/ BytesCompare(b.low.key, k) < 0
                 \/ (b.low.incl /\ b.low.key = k)
    /\ b.high.unb \/ BytesCompare(k, b.high.key) < 0
                  \/ (b.high.incl /\ b.high.key = k)

\* The stored (key, value) pairs of the reference map m that satisfy b.
Selected(m, b) == {<<k, m[k]>> : k \in {x \in DOMAIN m : InBounds(b, x)}}

\* C2: a fully consumed Range(bounds) yields every stored (key, value) pair
\* whose key satisfies the bounds, exactly once, and nothing else.
C2_RangeExact ==
    ret.op = "Range"
        => /\ {ret.out[j] : j \in 1..Len(ret.out)} = Selected(ref[ret.inst], ret.bounds)
           /\ Len(ret.out) = Cardinality(Selected(ref[ret.inst], ret.bounds))

\* C2's case: From([1]).DownTo([0]) over the keys [0], [0,1], [1] yielded the
\* two keys above the exclusive low edge and left [0] out.
C2_Witness ==
    /\ ret.op = "Range" /\ ret.bounds = FromDownTo(<<1>>, <<0>>)
    /\ DOMAIN ref["t"] = {<<0>>, <<0, 1>>, <<1>>}
    /\ Len(ret.out) = 2

\* C3: the keys a Range yields are strictly ascending for forward bounds and
\* strictly descending for reverse bounds.
C3_RangeOrdered ==
    ret.op = "Range"
        => \A j \in 1..(Len(ret.out) - 1) :
               BytesCompare(ret.out[j][1], ret.out[j + 1][1])
                   = (IF ret.bounds.reverse THEN 1 ELSE -1)

\* C3's case: a stored key and a stored extension of it were yielded, the
\* prefix first going forward and last going in reverse.
C3_Witness ==
    /\ ret.op = "Range" /\ <<>> \in DOMAIN ref["t"]
    /\ \/ /\ ret.bounds = FromTo(<<0>>, <<1>>)
          /\ [j \in 1..Len(ret.out) |-> ret.out[j][1]] = <<<<0>>, <<0, 1>>>>
       \/ /\ ret.bounds = FromDownTo(<<1>>, <<>>)
          /\ [j \in 1..Len(ret.out) |-> ret.out[j][1]] = <<<<0, 1>>, <<0>>>>

\* C4: Put(k, v) immediately followed by Get(k) returns (v, true).
C4_PutThenGet ==
    (ret.op = "Put" /\ ~ret.key.isNil)
        => Get(heap, roots[ret.inst], ret.key)
               = [value |-> ret.arg, ok |-> TRUE, panic |-> FALSE]

\* C4's case: the key just put is a strict prefix of a stored key and an
\* extension of the stored empty key, and replaced a different value.
C4_Witness ==
    /\ ret.op = "Put" /\ ret.key.b = <<0>> /\ ret.ok /\ ret.value # ret.arg
    /\ <<>> \in DOMAIN ref["t"]
    /\ \E k \in DOMAIN ref["t"] : IsStrictPrefix(<<0>>, k)

\* C5: Delete(k) immediately followed by Get(k) returns (zero, false),
\* whether k was stored or not.
C5_DeleteThenGet ==
    (ret.op = "Delete" /\ ~ret.key.isNil)
        => Get(heap, roots[ret.inst], ret.key)
               = [value |-> Zero, ok |-> FALSE, panic |-> FALSE]

\* C5's case: the deleted key was stored with a non-zero value and is a
\* strict prefix of a key that stays stored (its node stays in the tree).
C5_Witness ==
    /\ ret.op = "Delete" /\ ret.ok /\ ret.value = 1
    /\ \E k \in DOMAIN ref["t"] : IsStrictPrefix(ret.key.b, k)

\* The nodes of instance i: the part of the heap its root reaches.
Tree(h, rs, i) == [a \in Reach(h, rs[i]) |-> h[a]]

\* The pairs Range(b) yields on instance i, consumed to its end.
RangeOut(i, b) == Range(heap, roots[i], b, NoLimit).out

\* C6: a clone answers every Get and Range as the original did when it was
\* cloned, and afterwards each of the two answers as its own reference map
\* does (which only its own Put and Delete change), shares no node with the
\* other, and keeps its nodes unchanged when the other is mutated; Clone
\* changes no node of the original.
C6_CloneIndependent ==
    /\ [](\A i \in DOMAIN roots :
             /\ \A k \in Keys :
                    Get(heap, roots[i], KeyOf(k))
                        = [value |-> RefGet(ref[i], k).value,
                           ok |-> RefGet(ref[i], k).ok, panic |-> FALSE]
             /\ \A b \in {forwardAll, reverseAll} :
                    /\ {RangeOut(i, b)[j] : j \in 1..Len(RangeOut(i, b))}
                           = Selected(ref[i], b)
                    /\ Len(RangeOut(i, b)) = Cardinality(DOMAIN ref[i])
             /\ \A j \in DOMAIN roots \ {i} :
                    Reach(heap, roots[i]) \cap Reach(heap, roots[j]) = {})
    /\ [](ret.op = "Clone" => ref["c"] = ref["t"])
    /\ [][\A i \in DOMAIN roots :
              ((ret'.op = "Clone" /\ i = "t")
                  \/ (ret'.op \in {"Put", "Delete"} /\ ret'.inst # i))
                  => Tree(heap', roots', i) = Tree(heap, roots, i)]_vars

\* C6's case: after cloning a trie that holds [0,1], the clone got the key
\* [0,0] below the same first byte, and the original still lacks it.
C6_Witness ==
    /\ ret.op = "Put" /\ ret.inst = "c" /\ ret.key.b = <<0, 0>>
    /\ DOMAIN ref["t"] = {<<0, 1>>} /\ DOMAIN ref["c"] = {<<0, 0>>, <<0, 1>>}

\* C7: after every Put and Delete, every node without children other than
\* the root is terminal, and the nodes are exactly the prefixes of the
\* stored keys (so a deleted key's dead chain is unlinked as a whole).
C7_NoDeadLeaf ==
    \A i \in DOMAIN roots :
        /\ \A a \in Reach(heap, roots[i]) :
               (a # roots[i] /\ Len(heap[a].children) = 0) => heap[a].isTerminal
        /\ Paths(heap, roots[i], <<>>) = Prefixes(DOMAIN ref[i]) \cup {<<>>}

\* C7's case: the only key of the trie, stored under a two-node chain, was
\* deleted, and the root has no child left.
C7_Witness ==
    /\ ret.op = "Delete" /\ ret.ok /\ Len(ret.key.b) = 2
    /\ DOMAIN refPrev["t"] = {ret.key.b}
    /\ Len(heap[roots["t"]].children) = 0

\* C8: the children of every node are strictly ascending by key byte.
C8_ChildrenSorted ==
    \A a \in DOMAIN heap :
        \A i, j \in 1..Len(heap[a].children) :
            i < j => heap[heap[a].children[i]].keyByte
                        < heap[heap[a].children[j]].keyByte

\* C8's case: Put spliced a new child in front of an existing greater one.
C8_Witness ==
    /\ ret.op = "Put" /\ ~ret.ok /\ ret.key.b = <<1, 0>>
    /\ <<1, 1>> \in DOMAIN refPrev["t"]
    /\ Len(heap[roots["t"]].children) = 2

\* C9: Put, Get and Delete with a nil key panic and change nothing of the
\* trie; with a non-nil key, the empty key included, they do not panic, and
\* the empty key is stored like any other.
C9_NilKeyPanics ==
    /\ [](ret.panic <=> ret.key.isNil)
    /\ []((ret.op = "Put" /\ ret.key = KeyOf(<<>>))
              => Get(heap, roots[ret.inst], KeyOf(<<>>))
                     = [value |-> ret.arg, ok |-> TRUE, panic |-> FALSE])
    /\ [][ret'.key.isNil => (heap' = heap /\ roots' = roots)]_vars

\* C9's case: a Put with a nil key and a non-zero value panicked on a trie
\* that holds keys.
C9_Witness ==
    /\ ret.op = "Put" /\ ret.key.isNil /\ ret.panic /\ ret.arg = 1
    /\ Cardinality(DOMAIN ref["t"]) >= 2

\* C10: Get and Delete of a key that is not stored return (zero, false)
\* without a panic, and that Delete leaves the node tree unchanged, both
\* when the key's path is missing and when it ends at a non-terminal node.
C10_AbsentKey ==
    [][(ret'.op \in {"Get", "Delete"} /\ ~ret'.key.isNil
            /\ ret'.key.b \notin DOMAIN ref[ret'.inst])
        => (/\ ret'.value = Zero /\ ~ret'.ok /\ ~ret'.panic
            /\ heap' = heap /\ roots' = roots)]_vars

\* C10's case: a Delete of a key that is not stored but is a strict prefix
\* of a stored key (its path ends at a non-terminal node) returned not found.
C10_Witness ==
    /\ ret.op = "Delete" /\ ~ret.ok /\ ret.key.b = <<0>>
    /\ <<0>> \notin DOMAIN ref["t"]
    /\ <<0, 1>> \in DOMAIN ref["t"]

Last(s) == s[Len(s)]

\* The keys of the events of one kind in a log, in order.
Events(log, kind) ==
    LET I == {j \in 1..Len(log) : log[j][1] = kind}
        RECURSIVE pick(_)
        pick(j) == IF j > Len(log) THEN <<>>
                   ELSE IF j \in I THEN <<log[j][2]>> \o pick(j + 1)
                   ELSE pick(j + 1)
    IN  pick(1)

\* C11: when the consumer breaks out of its loop, at whatever depth of the
\* recursion the pair was yielded, the sequence ends with every frame
\* returned and without a further visit, adjacency call, child or pair; so
\* does the traversal when Range's own loop stops at a key past the bounds;
\* and the recursion of Range, given a consumer that stops after as many
\* pairs, has yielded and visited the same.
C11_StopPropagates ==
    /\ [][ret'.op = "Break"
             => /\ it'.pos = "end" /\ it'.stack = <<>>
                /\ it'.log = it.log /\ it'.c = it.c]_vars
    /\ [](ret.op = "Break"
             => LET r == Range(heap, roots[it.inst], it.caller, Len(it.c.out))
                IN  r.done /\ r.out = it.c.out /\ r.visited = it.c.visited)
    /\ []((it.pos = "end" /\ it.c.done)
             => /\ Last(it.log) = <<"visit", Last(it.c.visited)>>
                /\ Compare(it.bounds, Last(it.c.visited)) > 0
                /\ it.stack = <<>>)

\* C11's case: the consumer broke at a pair with a two-byte key, yielded two
\* calls deep in the recursion, while the trie holds further pairs within
\* the bounds.
C11_Witness ==
    /\ ret.op = "Break" /\ it.pos = "end"
    /\ Len(Last(it.c.out)[1]) = 2
    /\ Len(it.c.out) < Len(it.expect)

\* The path without its last byte.
Front(k) == SubSeq(k, 1, Len(k) - 1)

IsPrefix(p, k) == Len(p) <= Len(k) /\ SubSeq(k, 1, Len(p)) = p

\* Whether the event e is in the log before position j.
Before(log, j, e) == \E a \in 1..(j - 1) : log[a] = e

\* The children produced and not yet visited.
Pending(log) ==
    {log[j][2] : j \in {a \in 1..Len(log) : log[a][1] = "child"}}
        \ {log[j][2] : j \in {a \in 1..Len(log) : log[a][1] = "visit"}}

\* C12: a sequence that Range has returned and nobody has ranged over has
\* visited no node and called no adjacency; a held sequence has done nothing
\* past the visit that yielded the pair the consumer holds; a child is
\* produced only after adj was called for its parent, in a forward Range
\* after its parent was visited, and after every sibling produced before it
\* was visited with nothing of that sibling's subtree left for later; and the
\* children produced and not yet visited lie on one path (none going
\* forward, where a child is visited as soon as it is produced).
C12_Lazy ==
    LET log == it.log
    IN  /\ it.pos \in {"none", "new"}
               => (log = <<>> /\ it.stack = <<>> /\ it.c = Consumer(NoLimit))
        /\ it.pos = "held" => Last(log) = <<"visit", Last(it.c.out)[1]>>
        /\ \A j \in 1..Len(log) :
               log[j][1] = "child"
                   => /\ Before(log, j, <<"adj", Front(log[j][2])>>)
                      /\ ~IsReverse(it.bounds)
                             => /\ Before(log, j, <<"visit", Front(log[j][2])>>)
                                /\ j < Len(log) /\ log[j + 1] = <<"visit", log[j][2]>>
                      /\ \A a \in 1..(j - 1) :
                             (log[a][1] = "child" /\ Front(log[a][2]) = Front(log[j][2]))
                                 => /\ Before(log, j, <<"visit", log[a][2]>>)
                                    /\ \A e \in j..Len(log) :
                                           ~IsPrefix(log[a][2], log[e][2])
        /\ \A j \in 1..Len(log) :
               (log[j][1] = "adj" /\ ~IsReverse(it.bounds))
                   => Before(log, j, <<"visit", log[j][2]>>)
        /\ \A k1, k2 \in Pending(log) : IsPrefix(k1, k2) \/ IsPrefix(k2, k1)
        /\ ~IsReverse(it.bounds) => Pending(log) = {}

\* C12's case: a forward sequence is held at the pair of the key [0] while
\* two stored keys lie below [0]: no adjacency was called for [0] yet.
C12_Witness ==
    /\ it.pos = "held" /\ ~IsReverse(it.bounds)
    /\ Last(it.c.out)[1] = <<0>>
    /\ {<<0, 0>>, <<0, 1>>} \subseteq DOMAIN ref["t"]
    /\ Len(it.expect) >= Len(it.c.out) + 2

\* What Get returns on instance i for every key.
Reads(h, rs, i) == [k \in Keys |-> Get(h, rs[i], KeyOf(k))]

\* C13: whatever the consumer's loop body does with a clone of the trie the
\* sequence ranges over (Put, Delete, Get), the pairs the sequence has still
\* to yield are those a Range of the untouched trie yields: consumed to its
\* end from where it is, it yields and visits what the recursion of Range
\* does, which is what was expected when the sequence was made; and a step
\* of the sequence changes no node of the clone and nothing Get returns on
\* it, which stays what the clone's own reference map returns.
C13_RangeAndCloneIndependent ==
    /\ [](it.pos # "none"
             => LET d == Drain(heap, it)
                    r == Range(heap, roots[it.inst], it.caller, NoLimit)
                IN  (it.pos = "end" /\ ret.op = "Break")
                        \/ (/\ d.c.out = it.expect
                            /\ d.c.out = r.out /\ d.c.visited = r.visited))
    /\ [](\A j \in 1..Len(it.c.out) : it.c.out[j] = it.expect[j])
    /\ []("c" \in DOMAIN roots
             => \A k \in Keys :
                    Reads(heap, roots, "c")[k]
                        = [value |-> RefGet(ref["c"], k).value,
                           ok |-> RefGet(ref["c"], k).ok, panic |-> FALSE])
    /\ [][(ret'.op \in {"Next", "Break"} /\ "c" \in DOMAIN roots)
             => /\ Tree(heap', roots', "c") = Tree(heap, roots, "c")
                /\ Reads(heap', roots', "c") = Reads(heap, roots, "c")]_vars

\* C13's case: while the sequence is held, the clone has lost a key that the
\* sequence has still to yield from the original.
C13_Witness ==
    /\ it.pos = "held" /\ ret.op = "Delete" /\ ret.inst = "c" /\ ret.ok
    /\ \E j \in (Len(it.c.out) + 1)..Len(it.expect) : it.expect[j][1] = ret.key.b
    /\ Len(ret.key.b) = 2

\* C14: a Get, the making of a Range sequence and every step of its
\* consumption (to a pair, to the end, or to a break) change no node of any
\* trie; the sequence works on its own copy of the Bounds, and the Bounds
\* the caller gave stays as it was given.
C14_ReadOnly ==
    /\ [][ret'.op \in {"Get", "NewRange", "Next", "Break"}
             => (heap' = heap /\ roots' = roots)]_vars
    /\ [][it.pos # "none" => it'.caller = it.caller]_vars
    /\ [](it.pos # "none"
             => (it.bounds = BoundsClone(it.caller) /\ it.caller \in IterBounds))
    /\ [](ret.op \in {"NewRange", "Next", "Break"} => ret.bounds = it.caller)

\* C14's case: a Get of a stored key returned its value while a Range
\* sequence with both edges set is held at its second pair.
C14_Witness ==
    /\ ret.op = "Get" /\ ret.ok /\ ret.value = MaxVal
    /\ it.pos = "held" /\ Len(it.c.out) = 2
    /\ ~it.caller.low.unb /\ ~it.caller.high.unb

\* The paths of the graph g that start with path.
RECURSIVE Walks(_, _)
Walks(g, path) ==
    {path} \cup UNION {Walks(g, Append(path, g[Last(path)][i]))
                       : i \in 1..Len(g[Last(path)])}

\* The index of the path p in the sequence out of distinct paths.
IndexOf(out, p) == CHOOSE j \in 1..Len(out) : out[j] = p

Walk(i, b) == Range(heap, roots[i], b, NoLimit)

\* The keys of the node of path and of the nodes below it that the reverse
\* adjacency admits, each through its parent.
RECURSIVE ReverseAdmitted(_, _, _)
ReverseAdmitted(h, bounds, path) ==
    LET nodes == reverseChildAdj(h, bounds, path)
    IN  {path.key} \cup UNION {ReverseAdmitted(h, bounds, nodes[j]) : j \in 1..Len(nodes)}

\* C16: in a reverse Range a node is visited only after every node below it
\* that the adjacency admits, the children of a node are visited in strictly
\* descending order of their key bytes, and a yielded key comes after every
\* yielded key that extends it.
C16_ReverseIsPostOrder ==
    (ret.op = "Range" /\ IsReverse(ret.bounds))
        => LET vis == Walk(ret.inst, ret.bounds).visited
               adm == ReverseAdmitted(heap, ret.bounds,
                                      RangePath(roots[ret.inst], <<>>))
           IN  /\ \A j \in 1..Len(vis) :
                      \A k \in adm :
                          IsStrictPrefix(vis[j], k) => \E a \in 1..(j - 1) : vis[a] = k
               /\ \A a, b \in 1..Len(vis) :
                      (a < b /\ Len(vis[a]) > 0 /\ Len(vis[a]) = Len(vis[b])
                             /\ Front(vis[a]) = Front(vis[b]))
                          => Last(vis[a]) > Last(vis[b])
               /\ \A a, b \in 1..Len(ret.out) :
                      IsStrictPrefix(ret.out[b][1], ret.out[a][1]) => a < b

\* C16's case: a reverse Range over [0], [0,0] and [0,1] yielded [0,1], then
\* [0,0], then their prefix [0].
C16_Witness ==
    /\ ret.op = "Range" /\ IsReverse(ret.bounds)
    /\ [j \in 1..Len(ret.out) |-> ret.out[j][1]] = <<<<0, 1>>, <<0, 0>>, <<0>>>>

\* C17: the keys a forward Range visits are strictly ascending; a visited
\* key above the high edge (or equal to an exclusive one) is the last key
\* visited, and the walk is then done; and every stored key within the
\* bounds has been visited.
C17_ForwardStopsAboveHigh ==
    (ret.op = "Range" /\ ~IsReverse(ret.bounds))
        => LET w == Walk(ret.inst, ret.bounds)
               vis == w.visited
           IN  /\ \A j \in 1..(Len(vis) - 1) : BytesCompare(vis[j], vis[j + 1]) = -1
               /\ \A j \in 1..Len(vis) :
                      CompareAsc(ret.bounds, vis[j]) = 1 => j = Len(vis)
               /\ w.done <=> CompareAsc(ret.bounds, Last(vis)) = 1
               /\ \A k \in DOMAIN ref[ret.inst] :
                      InBounds(ret.bounds, k) => \E j \in 1..Len(vis) : vis[j] = k

\* C17's case: From([0]).To([1]) over [0], [1] and [1,0] visited the root,
\* [0] and then [1], which is the high edge, and stopped there.
C17_Witness ==
    /\ ret.op = "Range" /\ ret.bounds = FromTo(<<0>>, <<1>>)
    /\ DOMAIN ref["t"] = {<<0>>, <<1>>, <<1, 0>>}
    /\ Walk("t", ret.bounds).visited = <<<<>>, <<0>>, <<1>>>>
    /\ Walk("t", ret.bounds).done

Possible(b, p) == \E k \in LongKeys : IsPrefix(p, k) /\ InBounds(b, k)

\* The paths of the children of path that Range's adjacency admits.
ChildAdj(h, bounds, path) ==
    IF IsReverse(bounds) THEN reverseChildAdj(h, bounds, path)
    ELSE forwardChildAdj(h, bounds, path)

\* The keys of the children of the node of path.
ChildKeys(h, path) ==
    {Append(path.key, h[h[path.node].children[j]].keyByte)
        : j \in 1..Len(h[path.node].children)}

\* The paths of the nodes that are admitted, each through its parent, from
\* path down.
RECURSIVE Admitted(_, _, _)
Admitted(h, bounds, path) ==
    LET nodes == ChildAdj(h, bounds, path)
    IN  {path} \cup UNION {Admitted(h, bounds, nodes[j]) : j \in 1..Len(nodes)}

\* Whether p is the key of an exclusive edge of b, or a prefix of it.
OnExclusiveEdge(b, p) ==
    \E e \in {b.low, b.high} : ~e.unb /\ ~e.incl /\ IsPrefix(p, e.key)

\* Whether Range has a reason to walk to the node of key p.
Walkable(b, p) == Possible(b, p) \/ OnExclusiveEdge(b, p)

\* C19 (as amended): every node a Range visits has a key p such that p or a
\* byte sequence extending p lies within the Bounds, or p is the key of the
\* exclusive edge of the Bounds or a prefix of it; and the children admitted
\* at each admitted node are exactly its children whose key is such a p.
C19_WalksOnlyWalkable ==
    ret.op = "Range"
        => LET vis == Walk(ret.inst, ret.bounds).visited
               adm == Admitted(heap, ret.bounds, RangePath(roots[ret.inst], <<>>))
           IN  /\ \A j \in 1..Len(vis) : Walkable(ret.bounds, vis[j])
               /\ \A path \in adm :
                      LET nodes == ChildAdj(heap, ret.bounds, path)
                      IN  {nodes[j].key : j \in 1..Len(nodes)}
                              = {k \in ChildKeys(heap, path) : Walkable(ret.bounds, k)}

\* A forward Range has visited the key of its exclusive high edge, below and
\* at which nothing lies within the bounds, and has left a child of a node it
\* admitted out of the walk.
C19_Witness ==
    /\ ret.op = "Range"
    /\ ~IsReverse(ret.bounds)
    /\ LET vis == Walk(ret.inst, ret.bounds).visited
           adm == Admitted(heap, ret.bounds, RangePath(roots[ret.inst], <<>>))
       IN  /\ Len(vis) >= 2
           /\ ~Possible(ret.bounds, Last(vis))
           /\ Possible(ret.bounds, <<>>)
           /\ \E path \in adm :
                  Len(ChildAdj(heap, ret.bounds, path)) < Len(heap[path.node].children)

\* C19 (as stated): every node a Range visits has a key p such that p or a
\* byte sequence extending p lies within the Bounds, and the children admitted
\* at each admitted node are exactly its children whose key is such a p.
C19_Original ==
    ret.op = "Range"
        => LET vis == Walk(ret.inst, ret.bounds).visited
               adm == Admitted(heap, ret.bounds, RangePath(roots[ret.inst], <<>>))
           IN  /\ \A j \in 1..Len(vis) : Possible(ret.bounds, vis[j])
               /\ \A path \in adm :
                      LET nodes == ChildAdj(heap, ret.bounds, path)
                      IN  {nodes[j].key : j \in 1..Len(nodes)}
                              = {k \in ChildKeys(heap, path) : Possible(ret.bounds, k)}

\* C20: for every Bounds, every prefix p and every byte sequence k within the
\* Bounds that strictly extends p, childBounds(p) is admissible, the byte of k
\* after p lies between the least and the greatest byte it returns, and the
\* child adjacency of the Bounds' direction admits the child of that byte; so
\* childBounds(p) is not admissible only if no such k exists.
C20_NeverPrunes ==
    ret.op = "childBounds"
        => LET b == ret.bounds
               p == ret.key
               min == IF IsReverse(b) THEN ret.stop ELSE ret.start
               max == IF IsReverse(b) THEN ret.start ELSE ret.stop
               nodes == ChildAdj(FullTrie, b, RangePath(NewAddr("f", p), p))
           IN  \A k \in LongKeys :
                   (InBounds(b, k) /\ IsPrefix(p, k) /\ Len(k) > Len(p))
                       => /\ ret.ok
                          /\ min <= k[Len(p) + 1]
                          /\ k[Len(p) + 1] <= max
                          /\ \E j \in 1..Len(nodes) :
                                 nodes[j].key = SubSeq(k, 1, Len(p) + 1)

\* childBounds has narrowed the next bytes below a prefix, of one byte or
\* more, that both edge keys extend, and a key within the bounds extends it.
C20_Witness ==
    /\ ret.op = "childBounds"
    /\ Len(ret.key) >= 1
    /\ ~ret.bounds.low.unb /\ ~ret.bounds.high.unb
    /\ IsPrefix(ret.key, ret.bounds.low.key) /\ IsPrefix(ret.key, ret.bounds.high.key)
    /\ ret.ok
    /\ ret.start = ret.stop
    /\ \E k \in LongKeys :
           InBounds(ret.bounds, k) /\ IsPrefix(ret.key, k) /\ Len(k) > Len(ret.key)

\* C21: Delete of the empty key returns (the root's value, true) if the root
\* was terminal and (zero, false) if not, changes nothing but the root's
\* terminal flag and value, so that every child link stays and every other
\* key is retrieved as before; and every instance has its root in every
\* state, a root without children and not terminal once no key is stored.
C21_DeleteEmptyKey ==
    /\ [][(ret'.op = "Delete" /\ ret'.key = KeyOf(<<>>))
            => LET n == roots[ret'.inst]
               IN  /\ roots' = roots
                   /\ [value |-> ret'.value, ok |-> ret'.ok]
                          = (IF heap[n].isTerminal
                             THEN [value |-> heap[n].value, ok |-> TRUE]
                             ELSE [value |-> Zero, ok |-> FALSE])
                   /\ heap' = [heap EXCEPT ![n].value = Zero, ![n].isTerminal = FALSE]
                   /\ heap'[n].children = heap[n].children
                   /\ \A k \in Keys \ {<<>>} :
                          Get(heap', n, KeyOf(k)) = Get(heap, n, KeyOf(k))]_vars
    /\ [](\A i \in DOMAIN roots :
             /\ roots[i] \in DOMAIN heap
             /\ DOMAIN ref[i] = {}
                    => Tree(heap, roots, i) = (roots[i] :> NewPointerTrie))

\* C21's case: the empty key, stored with a non-zero value on a root that has
\* children, was deleted.
C21_Witness ==
    /\ ret.op = "Delete" /\ ret.key = KeyOf(<<>>) /\ ret.ok /\ ret.value = 1
    /\ Len(heap[roots["t"]].children) = 2
    /\ ~heap[roots["t"]].isTerminal

\* The node the byte path key leads to from n (the path is in the tree).
RECURSIVE NodeAt(_, _, _)
NodeAt(h, n, key) ==
    IF Len(key) = 0 THEN n
    ELSE LET ch == h[n].children
             j == CHOOSE x \in 1..Len(ch) : h[ch[x]].keyByte = key[1]
         IN  NodeAt(h, ch[j], Tail(key))

\* The length of the path of the prune anchor of key k in the tree of n: the
\* deepest node strictly above k's that is terminal or has more than one
\* child, the root if there is none.
AnchorDepth(h, n, k) ==
    LET A == {d \in 0..(Len(k) - 1) :
                 LET a == NodeAt(h, n, SubSeq(k, 1, d))
                 IN  h[a].isTerminal \/ Len(h[a].children) > 1}
    IN  CHOOSE d \in A \cup {0} : \A e \in A : e <= d

\* C22: a Delete that removes a stored non-empty key k whose node has no
\* children removes exactly one child link, the one towards k at the prune
\* anchor, and with it exactly the chain of nodes from below the anchor to
\* k's node, none of which but k's holds a key; if k's node has children no
\* link and no node is removed; either way no other node changes and the Get
\* of every other key is unchanged.
C22_PruneAtAnchor ==
    [][(ret'.op = "Delete" /\ ret'.ok /\ Len(ret'.key.b) > 0)
        => LET n == roots[ret'.inst]
               k == ret'.key.b
               kn == NodeAt(heap, n, k)
               d == AnchorDepth(heap, n, k)
               anchor == NodeAt(heap, n, SubSeq(k, 1, d))
               chain == {NodeAt(heap, n, SubSeq(k, 1, j)) : j \in (d + 1)..Len(k)}
               gone == DOMAIN heap \ DOMAIN heap'
           IN  /\ IF Len(heap[kn].children) = 0
                  THEN /\ gone = chain
                       /\ Cardinality(chain) = Len(k) - d
                       /\ \A j \in (d + 1)..(Len(k) - 1) :
                              SubSeq(k, 1, j) \notin DOMAIN refPrev'[ret'.inst]
                       /\ Len(heap'[anchor].children) = Len(heap[anchor].children) - 1
                       /\ {heap'[anchor].children[x] : x \in 1..Len(heap'[anchor].children)}
                              = {heap[anchor].children[x] : x \in 1..Len(heap[anchor].children)}
                                    \ {NodeAt(heap, n, SubSeq(k, 1, d + 1))}
                       /\ \A a \in DOMAIN heap' \ {anchor} : heap'[a] = heap[a]
                       /\ heap'[anchor] = [heap[anchor] EXCEPT
                                               !.children = heap'[anchor].children]
                  ELSE heap' = [heap EXCEPT ![kn].value = Zero,
                                            ![kn].isTerminal = FALSE]
               /\ \A k2 \in Keys \ {k} :
                      Get(heap', n, KeyOf(k2)) = Get(heap, n, KeyOf(k2))]_vars

\* C22's case: [0,1] was deleted below the terminal node of the stored key
\* [0], which stays, next to another stored key.
C22_Witness ==
    /\ ret.op = "Delete" /\ ret.ok /\ ret.key.b = <<0, 1>>
    /\ DOMAIN ref["t"] = {<<0>>, <<1, 1>>}
    /\ Len(heap[NodeAt(heap, roots["t"], <<0>>)].children) = 0

\* C23: at every visit of a Range, in pre-order and in post-order, whatever
\* capacity append gives the key buffers, the key Compare is given and the key
\* childBounds is given are the exact byte path of the visited node; every
\* key yielded is the byte path of its terminal node, lies in an array of its
\* own that no path of the walk and no other yielded key uses, and still has
\* those bytes when the iteration has ended if the consumer did not write to
\* it; and the pairs yielded are those of Range whether the consumer
\* overwrites the keys it is given or not.
C23_KeysExactAndCopied ==
    ret.op = "RangeBuf"
        => /\ \A j \in 1..Len(ret.events) : ret.events[j].read = ret.events[j].exact
           /\ \A j \in 1..Len(ret.out) :
                  /\ ret.out[j].got = ret.out[j].exact
                  /\ ret.out[j].exact \in DOMAIN ref[ret.inst]
                  /\ \A e \in 1..Len(ret.events) :
                         ret.events[e].key.arr # ret.out[j].key.arr
                  /\ \A x \in 1..Len(ret.out) :
                         x # j => ret.out[x].key.arr # ret.out[j].key.arr
                  /\ ~ret.scribble => Bytes(ret.mem, ret.out[j].key) = ret.out[j].got
           /\ [j \in 1..Len(ret.out) |-> <<ret.out[j].got, ret.out[j].value>>]
                  = Walk(ret.inst, ret.bounds).out

\* C23's case: two keys whose nodes are children of one node were yielded,
\* their paths' keys lay in one array, the second written over the first, and
\* their parent was visited after them (post-order).
C23_Witness ==
    /\ ret.op = "RangeBuf" /\ IsReverse(ret.bounds) /\ ~ret.scribble
    /\ Len(ret.out) >= 2
    /\ \E x, y \in 1..Len(ret.events) :
           /\ x < y
           /\ ret.events[x].kind = "Compare" /\ ret.events[y].kind = "Compare"
           /\ ret.events[x].key = ret.events[y].key
           /\ ret.events[x].exact # ret.events[y].exact
           /\ \E z \in (y + 1)..Len(ret.events) :
                  /\ ret.events[z].kind = "Compare"
                  /\ ret.events[z].key.arr = ret.events[x].key.arr
                  /\ IsStrictPrefix(ret.events[z].exact, ret.events[x].exact)

\* The node tree below n without its addresses: each node's fields, with
\* its children's trees in the place of its children.
RECURSIVE Shape(_, _)
Shape(h, n) ==
    [value |-> h[n].value, isTerminal |-> h[n].isTerminal, keyByte |-> h[n].keyByte,
     children |-> [j \in 1..Len(h[n].children) |-> Shape(h, h[n].children[j])]]

\* The bytes, ascending, in the sequence of the set S of bytes.
RECURSIVE Ascending(_)
Ascending(S) ==
    IF S = {} THEN <<>>
    ELSE LET x == Min(S) IN <<x>> \o Ascending(S \ {x})

\* The one tree for the map m below the prefix p: a node per prefix of a
\* stored key, children ascending by byte, terminal where a key is stored,
\* with its value, zero elsewhere.
RECURSIVE Canon(_, _)
Canon(m, p) ==
    LET next == Ascending({k[Len(p) + 1] : k \in {x \in DOMAIN m : IsStrictPrefix(p, x)}})
    IN  [value |-> IF p \in DOMAIN m THEN m[p] ELSE Zero,
         isTerminal |-> p \in DOMAIN m,
         keyByte |-> IF p = <<>> THEN 0 ELSE p[Len(p)],
         children |-> [j \in 1..Len(next) |-> Canon(m, Append(p, next[j]))]]

\* C24: in every state, however it was reached, the node tree of an instance
\* is the one tree of its key-to-value map: the same nodes in the same child
\* order, terminal exactly at the stored keys with their values, zero in
\* every other node; and a Delete(k) right after the Put of an absent k
\* leaves the tree of the map as it was before that Put.
C24_TreeOfContents ==
    /\ [](\A i \in DOMAIN roots : Shape(heap, roots[i]) = Canon(ref[i], <<>>))
    /\ [][(/\ ret.op = "Put" /\ ~ret.key.isNil /\ ~ret.ok
            /\ ret'.op = "Delete" /\ ret'.key = ret.key /\ ret'.inst = ret.inst)
           => /\ ret'.ok
              /\ Shape(heap', roots'[ret.inst]) = Canon(refPrev[ret.inst], <<>>)]_vars

\* C24's case: the key [0], stored with a non-zero value above two stored
\* keys, was deleted, and its node stays in the tree.
C24_Witness ==
    /\ ret.op = "Delete" /\ ret.ok /\ ret.value = 1 /\ ret.key.b = <<0>>
    /\ DOMAIN ref["t"] = {<<0, 0>>, <<0, 1>>}
    /\ Len(heap[NodeAt(heap, roots["t"], <<0>>)].children) = 2

====
